---- MODULE Spec2Model ----
(***************************************************************************)
(* Model of soru_uretici.py: the JSON question bank                        *)
(* (load_existing_questions, save_question_to_file), the retrying model    *)
(* request (generate_ai_question) and the Streamlit script that drives     *)
(* them (generate button, display, save button, review panel).             *)
(*                                                                         *)
(* One Streamlit script run is the sequence                                *)
(*   generate button -> display -> save button -> review panel             *)
(* and exactly one widget is "clicked" per run.  pc is the script's        *)
(* position; pc = "idle" means the run has ended and the page waits for    *)
(* the next interaction.                                                   *)
(*                                                                         *)
(* The backing file holds JSON text; it is modelled by the value json.load *)
(* yields for it (a list of records) or by the reason it cannot be read.   *)
(* A record keeps its question fields as one value q and its "id" key as a *)
(* sequence: <<>> when the key is absent, <<n>> when it is n.              *)
(***************************************************************************)
EXTENDS Integers, Sequences, FiniteSets, TLC

VARIABLES
    file,              \* remit_questions.json
    file0,             \* history: the file as the session found it
    current_question,  \* st.session_state['current_question']
    pc,                \* position of the running script
    attempt,           \* loop variable of the retry loop
    q_data,            \* value returned by generate_ai_question
    saved_id,          \* value returned by save_question_to_file in this run
    saved_data,        \* what the review panel loaded
    reviewed,          \* the review panel ran in this script run
    outcomes,          \* history: what each model call of this run produced
    waits,             \* history: arguments of time.sleep in this run
    msgs,              \* messages shown on the page in this run
    lastGood,          \* history: last truthy value generate_ai_question returned
    nSaves             \* history: number of completed saves

vars == <<file, file0, current_question, pc, attempt, q_data, saved_id,
          saved_data, reviewed, outcomes, waits, msgs, lastGood, nSaves>>

----------------------------------------------------------------------------
(* Bounds *)

MaxForeignLen == 2     \* records in the file the session starts from
MaxForeignId == 2      \* largest id in the file the session starts from
MaxSaves == 3          \* saves per behaviour

(* Program constant *)

max_retries == 3

----------------------------------------------------------------------------
(* Values *)

Bodies == {"qA", "qB"}

None == [kind |-> "none", q |-> "", id |-> <<>>]

\* bool(v) of a parsed JSON value: a non-empty object ("record") or another
\* truthy value such as [1] or "x" ("nondict") is truthy; {}, [], null, 0,
\* "" ("empty") and None are not.
Truthy(v) == v.kind \in {"record", "nondict"}

\* dict.get: d.get("id", default)
get_id(rec, default) == IF rec.id = <<>> THEN default ELSE rec.id[1]

Last(s) == s[Len(s)]

SeqsUpTo(S, n) == UNION {[1..k -> S] : k \in 0..n}

ForeignRecords == [kind : {"record"}, q : {"q0"}, id : {<<>>} \cup {<<i>> : i \in 1..MaxForeignId}]

\* What the session can find on disk: no file, a file that cannot be opened
\* or decoded, a file that is not JSON, or a JSON list of records.
Stores ==
    {[st |-> s, recs |-> <<>>] : s \in {"missing", "unreadable", "corrupt"}}
    \cup {[st |-> "ok", recs |-> r] : r \in SeqsUpTo(ForeignRecords, MaxForeignLen)}

\* What one pass through the try block (model call, .text, fence stripping,
\* json.loads) can produce.  has429 says whether str(e) of the raised
\* exception contains the substring "429"; a rate-limit rejection
\* (429 Resource exhausted) always does.
Outcomes ==
    [kind : {"record"}, q : Bodies, has429 : {FALSE}]
    \cup [kind : {"empty", "nondict"}, q : {""}, has429 : {FALSE}]
    \cup [kind : {"ratelimit"}, q : {""}, has429 : {TRUE}]
    \cup [kind : {"api_error", "bad_json"}, q : {""}, has429 : BOOLEAN]

Raises(o) == o.kind \in {"ratelimit", "api_error", "bad_json"}

----------------------------------------------------------------------------
(* Question bank store *)

load_raises_on_corrupt(f) ==
    IF f.st = "ok" THEN [raised |-> FALSE, val |-> f.recs]
    ELSE IF f.st = "missing" THEN [raised |-> FALSE, val |-> <<>>]
    ELSE [raised |-> TRUE, val |-> <<>>]

load_existing_questions(f) ==
    IF f.st = "missing" THEN [raised |-> FALSE, val |-> <<>>]
    ELSE IF f.st = "ok" THEN [raised |-> FALSE, val |-> f.recs]
    ELSE [raised |-> FALSE, val |-> <<>>]   \* bare except

new_id_last(existing_data) ==
    IF existing_data # <<>> THEN get_id(Last(existing_data), 0) ELSE 1

new_id(existing_data) ==
    IF existing_data # <<>> THEN get_id(Last(existing_data), 0) + 1 ELSE 1

written_alone(existing_data, question_data) == <<question_data>>

\* existing_data.append(question_data); json.dump(existing_data, f)
written(existing_data, question_data) == Append(existing_data, question_data)

----------------------------------------------------------------------------
(* Retry policy *)

wait_time_zero_based(a) == 5 * a

wait_time(a) == 5 * (a + 1)

\* "429" in error_str
is_quota(o) == o.has429

may_retry_always(a) == a < max_retries

may_retry(a) == a < max_retries - 1

hold_always(cur, returned) == returned

\* if q_data: st.session_state['current_question'] = q_data
hold(cur, returned) == IF Truthy(returned) THEN returned ELSE cur

----------------------------------------------------------------------------
(* Script *)

Init ==
    /\ file \in Stores
    /\ file0 = file
    /\ current_question = None
    /\ pc = "review"
    /\ attempt = 0
    /\ q_data = None
    /\ saved_id = <<>>
    /\ saved_data = <<>>
    /\ reviewed = FALSE
    /\ outcomes = <<>>
    /\ waits = <<>>
    /\ msgs = <<>>
    /\ lastGood = None
    /\ nSaves = 0

\* A new script run starts: locals and page are fresh.
NewRun ==
    /\ attempt' = 0
    /\ q_data' = None
    /\ reviewed' = FALSE
    /\ outcomes' = <<>>
    /\ waits' = <<>>

\* Lines 183-200: showing the held question; q.get fails on a non-dict.
DisplayCrashes(held) == held.kind = "nondict"

\* Generate button pressed; genai.GenerativeModel(model_name_input).
GenerateClick(init_ok) ==
    /\ pc = "idle"
    /\ NewRun
    /\ IF init_ok
         THEN /\ pc' = "attempt"
              /\ msgs' = <<>>
         ELSE /\ pc' = "returned"
              /\ msgs' = <<"init_error">>
    /\ saved_id' = <<>>
    /\ UNCHANGED <<file, file0, current_question, saved_data, lastGood, nSaves>>

\* One iteration of the retry loop, lines 137-164.
Attempt(o) ==
    /\ pc = "attempt"
    /\ outcomes' = Append(outcomes, o)
    /\ IF ~Raises(o)
         THEN \* return json.loads(clean_json)
              /\ q_data' = [kind |-> o.kind, q |-> o.q, id |-> <<>>]
              /\ lastGood' = IF Truthy(q_data') THEN q_data' ELSE lastGood
              /\ pc' = "returned"
              /\ UNCHANGED <<attempt, waits, msgs>>
         ELSE IF is_quota(o)
         THEN IF may_retry(attempt)
                THEN /\ msgs' = Append(msgs, "quota_warning")
                     /\ waits' = Append(waits, wait_time(attempt))
                     /\ attempt' = attempt + 1
                     \* continue; the for loop ends after max_retries rounds
                     /\ pc' = IF attempt + 1 < max_retries
                                THEN "attempt" ELSE "returned"
                     /\ UNCHANGED <<q_data, lastGood>>
                ELSE /\ msgs' = Append(msgs, "quota_error")
                     /\ pc' = "returned"
                     /\ UNCHANGED <<attempt, waits, q_data, lastGood>>
         ELSE /\ msgs' = msgs \o <<"api_error", "tip">>
              /\ pc' = "returned"
              /\ UNCHANGED <<attempt, waits, q_data, lastGood>>
    /\ UNCHANGED <<file, file0, current_question, saved_id, saved_data,
                   reviewed, nSaves>>

\* Lines 179-200: the handler keeps the result, then the page shows what is held.
GenerateReturn ==
    /\ pc = "returned"
    /\ current_question' = hold(current_question, q_data)
    /\ IF DisplayCrashes(current_question')
         THEN /\ msgs' = Append(msgs, "exception")
              /\ pc' = "idle"
         ELSE /\ msgs' = msgs
              /\ pc' = "review"
    /\ UNCHANGED <<file, file0, attempt, q_data, saved_id, saved_data,
                   reviewed, outcomes, waits, lastGood, nSaves>>

\* Save button pressed (it is rendered only while a question is shown);
\* save_question_to_file(q), then the toast.
SaveClick ==
    /\ pc = "idle"
    /\ Truthy(current_question)
    /\ ~DisplayCrashes(current_question)
    /\ nSaves < MaxSaves
    /\ NewRun
    /\ LET existing_data == load_existing_questions(file).val
           id == new_id(existing_data)
           question_data == [current_question EXCEPT !.id = <<id>>]
       IN /\ current_question' = question_data   \* q is the held dict itself
          /\ file' = [st |-> "ok", recs |-> written(existing_data, question_data)]
          /\ saved_id' = <<id>>
    /\ msgs' = <<"toast">>
    /\ nSaves' = nSaves + 1
    /\ pc' = "review"
    /\ UNCHANGED <<file0, saved_data, lastGood>>

\* The same, on a file that can be neither read nor opened for writing:
\* open(..., "w") raises after the held record got its id.
SaveClickWriteFails ==
    /\ pc = "idle"
    /\ Truthy(current_question)
    /\ ~DisplayCrashes(current_question)
    /\ file.st = "unreadable"
    /\ NewRun
    /\ LET existing_data == load_existing_questions(file).val
           id == new_id(existing_data)
       IN current_question' = [current_question EXCEPT !.id = <<id>>]
    /\ msgs' = <<"exception">>
    /\ saved_id' = <<>>
    /\ pc' = "idle"
    /\ UNCHANGED <<file, file0, saved_data, lastGood, nSaves>>

\* Any other interaction (model selection, expander): the script runs again.
Rerun ==
    /\ pc = "idle"
    /\ NewRun
    /\ IF DisplayCrashes(current_question)
         THEN /\ msgs' = <<"exception">>
              /\ pc' = "idle"
         ELSE /\ msgs' = <<>>
              /\ pc' = "review"
    /\ saved_id' = <<>>
    /\ UNCHANGED <<file, file0, current_question, saved_data, lastGood, nSaves>>

\* Lines 210-227: the review panel loads the bank.
Review ==
    /\ pc = "review"
    /\ LET r == load_existing_questions(file)
       IN /\ saved_data' = r.val
          /\ msgs' = IF r.raised THEN Append(msgs, "exception") ELSE msgs
    /\ reviewed' = TRUE
    /\ pc' = "idle"
    /\ UNCHANGED <<file, file0, current_question, attempt, q_data, saved_id,
                   outcomes, waits, lastGood, nSaves>>

Next ==
    \/ \E init_ok \in BOOLEAN : GenerateClick(init_ok)
    \/ \E o \in Outcomes : Attempt(o)
    \/ GenerateReturn
    \/ SaveClick
    \/ SaveClickWriteFails
    \/ Rerun
    \/ Review

Spec == Init /\ [][Next]_vars

----------------------------------------------------------------------------
(* Properties *)

\* The step in which save_question_to_file returns an id.
SaveStep == pc = "idle" /\ saved_id' # <<>>

EmptyStore(f) == f.st = "missing" \/ (f.st = "ok" /\ f.recs = <<>>)

Max(S) == CHOOSE m \in S : \A x \in S : x <= m

\* Largest id present in a list of records, 0 when none carries one.
MaxId(recs) == Max({0} \cup {recs[i].id[1] : i \in {j \in 1..Len(recs) : recs[j].id # <<>>}})

RateLimited(i) == outcomes[i].kind = "ratelimit"

Shown(m) == \E i \in 1..Len(msgs) : msgs[i] = m

\* C1: starting from an empty or absent store, after N successful saves the
\* stored ids are exactly 1, 2, ..., N in append order.
C1_IdsFromEmpty ==
    EmptyStore(file0) =>
        /\ Len(file.recs) = nSaves
        /\ \A i \in 1..Len(file.recs) : file.recs[i].id = <<i>>

C1_Witness ==
    /\ EmptyStore(file0)
    /\ nSaves = 3
    /\ pc = "idle"

\* C2 (as claimed): on every store load can return, a save assigns the
\* maximum id present plus one (1 on an empty store), so the new id differs
\* from every id already stored.
C2_MaxPlusOne ==
    [][SaveStep =>
        LET S == load_existing_questions(file).val
        IN /\ saved_id'[1] = MaxId(S) + 1
           /\ \A i \in 1..Len(S) : S[i].id # saved_id']_vars

\* C3: rate-limit errors on attempts 1 and 2 and a parseable reply on
\* attempt 3 give the parsed value back after exactly two waits, 5 then 10;
\* nothing is waited before the first attempt, and 5 before the second.
C3_TwoWaitsThenRecord ==
    /\ (outcomes = <<>> => waits = <<>>)
    /\ (Len(outcomes) = 1 /\ RateLimited(1) => waits = <<5>>)
    /\ (/\ Len(outcomes) = 3
        /\ RateLimited(1)
        /\ RateLimited(2)
        /\ ~Raises(outcomes[3]))
       => /\ pc # "attempt"
          /\ q_data = [kind |-> outcomes[3].kind, q |-> outcomes[3].q, id |-> <<>>]
          /\ waits = <<5, 10>>

C3_Witness ==
    /\ Len(outcomes) = 3
    /\ RateLimited(1)
    /\ RateLimited(2)
    /\ outcomes[3].kind = "record"
    /\ pc = "review"
    /\ current_question.q = outcomes[3].q

C5_BadJsonIsTerminal ==
    \A i \in 1..Len(outcomes) :
        outcomes[i].kind = "bad_json" =>
            /\ i = Len(outcomes)
            /\ pc # "attempt"
            /\ Len(waits) < i

\* C6 (as claimed): a model-call error that is not a rate-limit rejection
\* ends the request at once, with no wait and no further attempt, and a
\* failed model initialization ends it before any attempt.
C6_OtherErrorIsTerminal ==
    /\ \A i \in 1..Len(outcomes) :
        outcomes[i].kind = "api_error" =>
            /\ i = Len(outcomes)
            /\ pc # "attempt"
            /\ Len(waits) < i
    /\ Shown("init_error") => outcomes = <<>> /\ pc # "attempt"

\* C7: loading a missing, unreadable or corrupt file gives the empty list,
\* shows no error and leaves the file as it was.
C7_LoadAbsorbsBadFile ==
    [][(pc = "review" /\ file.st \in {"missing", "unreadable", "corrupt"})
        => /\ saved_data' = <<>>
           /\ msgs' = msgs
           /\ pc' = "idle"
           /\ file' = file]_vars

C7_Witness ==
    /\ pc = "idle"
    /\ reviewed
    /\ file.st = "corrupt"
    /\ saved_data = <<>>
    /\ Len(outcomes) > 0

\* C8: a save leaves what load returned before it in place and adds exactly
\* one element at the end, the saved record with the id it was given.
C8_AppendOnly ==
    [][SaveStep =>
        load_existing_questions(file').val =
            Append(load_existing_questions(file).val,
                   [kind |-> "record", q |-> current_question.q, id |-> saved_id'])]_vars

C8_Witness ==
    /\ pc = "idle"
    /\ reviewed
    /\ saved_id # <<>>
    /\ Len(file0.recs) = 2
    /\ Len(saved_data) = 4

\* C9: a save appends the record of the most recent generate that returned
\* one; a generate that returns nothing usable leaves the held question as
\* it is; while nothing is held the file cannot change.
C9_SaveMostRecent ==
    [][/\ SaveStep =>
            /\ lastGood.kind = "record"
            /\ Last(file'.recs).q = lastGood.q
       /\ (pc \in {"attempt", "returned"} /\ ~Truthy(q_data'))
            => current_question' = current_question
       /\ current_question = None => (file' = file /\ saved_id' = <<>>)]_vars

C9_Witness ==
    /\ pc = "idle"
    /\ saved_id # <<>>
    /\ Len(file.recs) >= 2
    /\ file.recs[Len(file.recs) - 1].q = "qA"
    /\ Last(file.recs).q = "qB"

\* C10 (as claimed): a generate that ends with no new record held has shown
\* at least one error message by the time the script run is over.
C10_NoSilentDrop ==
    (pc \in {"review", "idle"} /\ Len(outcomes) > 0 /\ ~Truthy(q_data))
        => \/ Shown("quota_error")
           \/ Shown("api_error")
           \/ Shown("init_error")
           \/ Shown("exception")

====
